---- MODULE Spec2Model ----
(***************************************************************************)
(* Model of config/controller.py: the kopf timer handler reconcile_ingress *)
(* and the functions it is built from.  Strings that are concatenated or   *)
(* prefix-matched are sequences of characters; kinds, plurals and log tags *)
(* are atomic strings.                                                     *)
(***************************************************************************)
EXTENDS Naturals, Sequences, FiniteSets

VARIABLES
    store,        \* the custom objects held by the API server
    target,       \* per Ingress: its external-dns.alpha.kubernetes.io/target annotation
    template,     \* the documents of the file at TEMPLATE_PATH
    last,         \* what the most recent tick observed and did (empty before the first)
    prior,        \* the fault-free ticks of the same Ingress that led up to it, oldest first
    applying      \* per caller of create_or_update_crd: where its call stands

vars == <<store, target, template, last, prior, applying>>

-----------------------------------------------------------------------------
(* Bounds of the model *)

MaxFaults == 1
MaxPrior == 2
MaxDocs == 2
MaxApplies == 2

-----------------------------------------------------------------------------
(* Strings *)

\* Python None where a string is expected
None == <<"None">>

Dash == <<"-">>

\* the element of a singleton set: Only({f(x) : x \in {e}}) is f(e) with e
\* evaluated once
Only(S) == CHOOSE x \in S : TRUE

\* str.startswith
StartsWith(s, p) ==
    /\ Len(p) <= Len(s)
    /\ SubSeq(s, 1, Len(p)) = p

Uppercase == <<"A", "B", "C", "D", "E", "F", "G", "H", "I", "J", "K", "L", "M",
               "N", "O", "P", "Q", "R", "S", "T", "U", "V", "W", "X", "Y", "Z">>

Lowercase == <<"a", "b", "c", "d", "e", "f", "g", "h", "i", "j", "k", "l", "m",
               "n", "o", "p", "q", "r", "s", "t", "u", "v", "w", "x", "y", "z">>

LowerMap ==
    [c \in {Uppercase[i] : i \in 1..Len(Uppercase)} |->
        Lowercase[CHOOSE i \in 1..Len(Uppercase) : Uppercase[i] = c]]

LowerChar(c) == IF c \in DOMAIN LowerMap THEN LowerMap[c] ELSE c

\* str.lower
Lower(s) == [i \in 1..Len(s) |-> LowerChar(s[i])]

-----------------------------------------------------------------------------
(* Module constants *)

Kinds == <<"Distribution", "Function", "CachePolicy", "OriginRequestPolicy", "KeyGroup">>

PLURAL_MAP ==
    [k \in {Kinds[i] : i \in 1..Len(Kinds)} |->
        CASE k = "Distribution" -> "distributions"
          [] k = "Function" -> "functions"
          [] k = "CachePolicy" -> "cachepolicies"
          [] k = "OriginRequestPolicy" -> "originrequestpolicies"
          [] k = "KeyGroup" -> "keygroups"]

\* kind in PLURAL_MAP
InPluralMap(kind) == kind \in DOMAIN PLURAL_MAP

DefaultBaseName == <<"c", "f", "-", "o", "b", "j", "e", "c", "t">>

OriginSuffix == <<"o", "r", "i", "g", "i", "n">>

CommentPrefix == <<"CloudFront for ALB ">>

-----------------------------------------------------------------------------
(* Exceptions: the classes the code can meet, and what an except clause    *)
(* of a given class catches.                                               *)

NoExc == "none"

ExcTypes == {"ApiException", "ConnectionError", "TypeError", "IndexError", "KeyError", "OSError"}

Catches(clause, exc) ==
    \/ clause = "Exception" /\ exc \in ExcTypes
    \/ clause = exc

-----------------------------------------------------------------------------
(* The template file.  A document is                                       *)
(*   kind    : its kind, or "absent"                                       *)
(*   name    : metadata.name, or None when the template omits it           *)
(*   missing : the nested field of spec the document lacks, or "none"      *)
(*             ("items": origins.items is empty)                           *)
(*   body    : the fields of spec.distributionConfig the patch writes      *)

RawBody == [comment |-> <<"tpl">>, originId |-> <<"tpl">>,
            domainName |-> <<"tpl">>, targetOriginId |-> <<"tpl">>]

\* spec.distributionConfig.comment = f"CloudFront for ALB {namespace}-{ingress_name}"
\* ...origins.items[0].id = origin_id, ...domainName = alb_dns,
\* ...defaultCacheBehavior.targetOriginId = origin_id
PatchDistribution(namespace, ingress_name, alb_dns, origin_id) ==
    [comment |-> CommentPrefix \o namespace \o Dash \o ingress_name,
     originId |-> origin_id,
     domainName |-> alb_dns,
     targetOriginId |-> origin_id]

\* a renaming that leaves the namespace out of the name; the naming property
\* tells it from PatchedName
NameWithoutNamespace(namespace, ingress_name, base_name) ==
    ingress_name \o Dash \o base_name

\* a renaming that puts the base name first; the property that teardown
\* finds what was materialized tells it from PatchedName
NameSuffixed(namespace, ingress_name, base_name) ==
    base_name \o Dash \o namespace \o Dash \o ingress_name

\* meta['name'] = f"{namespace}-{ingress_name}-{base_name}"
PatchedName(namespace, ingress_name, base_name) ==
    namespace \o Dash \o ingress_name \o Dash \o base_name

\* meta.get("name", "cf-object")
BaseName(doc) == IF doc.name = None THEN DefaultBaseName ELSE doc.name

\* One pass of the for loop body, lines 36-52, on a document the loop keeps.
PatchDoc(doc, namespace, ingress_name, alb_dns, origin_id) ==
    [kind |-> doc.kind,
     namespace |-> namespace,
     name |-> PatchedName(namespace, ingress_name, BaseName(doc)),
     body |-> IF doc.kind = "Distribution"
              THEN PatchDistribution(namespace, ingress_name, alb_dns, origin_id)
              ELSE doc.body]

\* a loop body that never raises; the malformed-template property tells it
\* from PatchRaises
NeverRaises(doc) == NoExc

\* The exception the loop body raises on a document, if any: a missing key
\* raises KeyError, an empty origins.items raises IndexError.
PatchRaises(doc) ==
    IF InPluralMap(doc.kind) /\ doc.kind = "Distribution" /\ doc.missing # "none"
    THEN IF doc.missing = "items" THEN "IndexError" ELSE "KeyError"
    ELSE NoExc

\* the loop without the test of lines 38-39, keeping every document; the
\* registry-filter property tells it from PatchLoop
RECURSIVE PatchLoopUnfiltered(_, _, _, _, _, _)
PatchLoopUnfiltered(docs, i, namespace, ingress_name, alb_dns, patched_docs) ==
    IF i > Len(docs)
    THEN [exc |-> NoExc, docs |-> patched_docs]
    ELSE IF PatchRaises(docs[i]) # NoExc
    THEN [exc |-> PatchRaises(docs[i]), docs |-> <<>>]
    ELSE PatchLoopUnfiltered(docs, i + 1, namespace, ingress_name, alb_dns,
                             Append(patched_docs,
                                    PatchDoc(docs[i], namespace, ingress_name, alb_dns,
                                             namespace \o Dash \o ingress_name \o Dash \o OriginSuffix)))

RECURSIVE PatchLoop(_, _, _, _, _, _)
PatchLoop(docs, i, namespace, ingress_name, alb_dns, patched_docs) ==
    IF i > Len(docs)
    THEN [exc |-> NoExc, docs |-> patched_docs]
    ELSE IF ~InPluralMap(docs[i].kind)
    THEN PatchLoop(docs, i + 1, namespace, ingress_name, alb_dns, patched_docs)
    ELSE IF PatchRaises(docs[i]) # NoExc
    THEN [exc |-> PatchRaises(docs[i]), docs |-> <<>>]
    ELSE PatchLoop(docs, i + 1, namespace, ingress_name, alb_dns,
                   Append(patched_docs,
                          PatchDoc(docs[i], namespace, ingress_name, alb_dns,
                                   namespace \o Dash \o ingress_name \o Dash \o OriginSuffix)))

\* load_and_patch_template: file is the sequence of documents
\* yaml.safe_load_all yields from TEMPLATE_PATH; open() raises when unreadable.
load_and_patch_template(file, unreadable, namespace, ingress_name, alb_dns) ==
    IF unreadable
    THEN [exc |-> "OSError", docs |-> <<>>]
    ELSE PatchLoop(file, 1, namespace, ingress_name, alb_dns, <<>>)

-----------------------------------------------------------------------------
(* The API server.  An object of the store is a record                     *)
(*   [plural, namespace, name, body];                                      *)
(* a call is logged as [op, plural, namespace, name, res].  F is the set   *)
(* of calls that fail in this tick and ftype the exception they raise.     *)

Call(op, plural, namespace, name, res) ==
    [op |-> op, plural |-> plural, namespace |-> namespace, name |-> name, res |-> res]

FaultPoint(op, plural, name) == [op |-> op, plural |-> plural, name |-> name]

Log(level, msg, name) == [level |-> level, msg |-> msg, name |-> name]

Exists(st, plural, namespace, name) ==
    \E o \in st : o.plural = plural /\ o.namespace = namespace /\ o.name = name

Alphabet == <<"-">> \o Lowercase

CharRank(c) == CHOOSE i \in 1..Len(Alphabet) : Alphabet[i] = c

RECURSIVE StrLess(_, _)
StrLess(s, t) ==
    IF t = <<>> THEN FALSE
    ELSE IF s = <<>> THEN TRUE
    ELSE IF Head(s) # Head(t) THEN CharRank(Head(s)) < CharRank(Head(t))
    ELSE StrLess(Tail(s), Tail(t))

\* The objects of a set in the order of their names, the order in which the
\* API server lists a collection.
RECURSIVE SortByName(_)
SortByName(S) ==
    IF S = {} THEN <<>>
    ELSE LET first == CHOOSE o \in S : \A p \in S \ {o} : StrLess(o.name, p.name)
         IN <<first>> \o SortByName(S \ {first})

\* objs.get('items', []) of list_namespaced_custom_object
ListItems(st, plural, namespace) ==
    SortByName({o \in st : o.plural = plural /\ o.namespace = namespace})

StoreObject(doc) ==
    [plural |-> PLURAL_MAP[doc.kind], namespace |-> doc.namespace,
     name |-> doc.name, body |-> doc.body]

-----------------------------------------------------------------------------
(* create_or_update_crd, lines 55-85.  The result is the store after the   *)
(* call, the calls made, the lines logged and the exception that leaves    *)
(* the function (NoExc when it returns).                                   *)

\* an except clause that catches connection errors only; the concurrent-create
\* property tells it from ApplyExceptClause
OnlyConnectionError == "ConnectionError"

\* except kubernetes.client.exceptions.ApiException, lines 71 and 84
ApplyExceptClause == "ApiException"

create_or_update_crd(st, doc, F, ftype) ==
    LET kind == doc.kind
        name == doc.name
        namespace == doc.namespace
        quiet == [store |-> st, calls |-> <<>>, logs |-> <<>>, exc |-> NoExc]
    IN  IF ~InPluralMap(kind)
        THEN quiet
        ELSE
        LET plural == PLURAL_MAP[kind]
            get(res) == Call("get", plural, namespace, name, res)
            create(res) == Call("create", plural, namespace, name, res)
        IN  IF FaultPoint("get", plural, name) \in F
            THEN IF Catches(ApplyExceptClause, ftype)
                 THEN [quiet EXCEPT !.calls = <<get(ftype)>>,
                                    !.logs = <<Log("error", "Error checking", name)>>]
                 ELSE [quiet EXCEPT !.calls = <<get(ftype)>>, !.exc = ftype]
            ELSE IF Exists(st, plural, namespace, name)
            THEN [quiet EXCEPT !.calls = <<get("ok")>>,
                               !.logs = <<Log("info", "already exists", name)>>]
            ELSE IF FaultPoint("create", plural, name) \in F
            THEN IF Catches(ApplyExceptClause, ftype)
                 THEN [quiet EXCEPT !.calls = <<get("404"), create(ftype)>>,
                                    !.logs = <<Log("error", "Failed to create", name)>>]
                 ELSE [quiet EXCEPT !.calls = <<get("404"), create(ftype)>>, !.exc = ftype]
            ELSE [store |-> st \cup {StoreObject(doc)},
                  calls |-> <<get("404"), create("ok")>>,
                  logs |-> <<Log("info", "Created", name)>>,
                  exc |-> NoExc]

\* The same function call by call, for callers that run side by side.  fault
\* is the exception the call raises (NoExc when the store answers).  The
\* result tells where the caller stands after the call: "create" (the check
\* answered 404), "idle" (the function has returned) or "raised" (an exception
\* has left it).

\* an existence check after which the caller always goes on to create; the
\* check-then-create property tells it from GetStep
GetStepThenCreate(st, doc, fault) ==
    LET plural == PLURAL_MAP[doc.kind]
        res == IF fault # NoExc THEN fault
               ELSE IF Exists(st, plural, doc.namespace, doc.name) THEN "ok" ELSE "404"
    IN  [pc |-> "create", store |-> st,
         call |-> Call("get", plural, doc.namespace, doc.name, res), logs |-> <<>>]

\* lines 62-74: the existence check
GetStep(st, doc, fault) ==
    LET plural == PLURAL_MAP[doc.kind]
        get(res) == Call("get", plural, doc.namespace, doc.name, res)
    IN  IF fault # NoExc
        THEN IF Catches(ApplyExceptClause, fault)
             THEN [pc |-> "idle", store |-> st, call |-> get(fault),
                   logs |-> <<Log("error", "Error checking", doc.name)>>]
             ELSE [pc |-> "raised", store |-> st, call |-> get(fault), logs |-> <<>>]
        ELSE IF Exists(st, plural, doc.namespace, doc.name)
        THEN [pc |-> "idle", store |-> st, call |-> get("ok"),
              logs |-> <<Log("info", "already exists", doc.name)>>]
        ELSE [pc |-> "create", store |-> st, call |-> get("404"), logs |-> <<>>]

\* lines 75-85: the create; the store answers a create of a name it holds
\* with ApiException(409)
CreateStep(st, doc, fault) ==
    LET plural == PLURAL_MAP[doc.kind]
        create(res) == Call("create", plural, doc.namespace, doc.name, res)
        failed(res, exc) ==
            IF Catches(ApplyExceptClause, exc)
            THEN [pc |-> "idle", store |-> st, call |-> create(res),
                  logs |-> <<Log("error", "Failed to create", doc.name)>>]
            ELSE [pc |-> "raised", store |-> st, call |-> create(res), logs |-> <<>>]
    IN  IF fault # NoExc
        THEN failed(fault, fault)
        ELSE IF Exists(st, plural, doc.namespace, doc.name)
        THEN failed("409", "ApiException")
        ELSE [pc |-> "idle", store |-> st \cup {StoreObject(doc)}, call |-> create("ok"),
              logs |-> <<Log("info", "Created", doc.name)>>]

-----------------------------------------------------------------------------
(* remove_crds_and_patch, lines 97-128.  acc is                            *)
(*   [store, target, calls, logs, exc].                                    *)

\* an except clause that catches API errors only; the property that the
\* annotation is always cleared tells it from RemoveExceptClause
OnlyApiException == "ApiException"

\* except Exception, line 117
RemoveExceptClause == "Exception"

\* except Exception, line 127
ClearExceptClause == "Exception"

\* the loop without the startswith test of line 108, deleting every listed
\* item; the teardown property tells it from DeleteLoop
RECURSIVE DeleteLoopAll(_, _, _, _, _, _, _)
DeleteLoopAll(items, j, acc, kind, name_prefix, F, ftype) ==
    IF j > Len(items)
    THEN acc
    ELSE
    LET item == items[j]
        delete(res) == Call("delete", item.plural, item.namespace, item.name, res)
    IN  IF FaultPoint("delete", item.plural, item.name) \in F
        THEN [acc EXCEPT !.calls = Append(@, delete(ftype)), !.exc = ftype]
        ELSE DeleteLoopAll(items, j + 1,
                           [acc EXCEPT !.store = @ \ {item},
                                       !.calls = Append(@, delete("ok")),
                                       !.logs = Append(@, Log("info", "Deleted", item.name))],
                           kind, name_prefix, F, ftype)

\* for item in objs.get('items', []), lines 107-116
RECURSIVE DeleteLoop(_, _, _, _, _, _, _)
DeleteLoop(items, j, acc, kind, name_prefix, F, ftype) ==
    IF j > Len(items)
    THEN acc
    ELSE IF ~StartsWith(items[j].name, name_prefix)
    THEN DeleteLoop(items, j + 1, acc, kind, name_prefix, F, ftype)
    ELSE
    LET item == items[j]
        delete(res) == Call("delete", item.plural, item.namespace, item.name, res)
    IN  IF FaultPoint("delete", item.plural, item.name) \in F
        THEN [acc EXCEPT !.calls = Append(@, delete(ftype)), !.exc = ftype]
        ELSE Only({DeleteLoop(items, j + 1, next, kind, name_prefix, F, ftype) :
                       next \in {[acc EXCEPT !.store = @ \ {item},
                                             !.calls = Append(@, delete("ok")),
                                             !.logs = Append(@, Log("info", "Deleted", item.name))]}})

\* the try block with a name_prefix that lacks the namespace, which no
\* materialized name starts with; the round-trip property tells it from
\* ListAndDelete
ListAndDeleteBarePrefix(acc, kind, namespace, ingress_name, F, ftype) ==
    LET plural == PLURAL_MAP[kind]
        name_prefix == ingress_name \o Dash
        list(res) == Call("list", plural, namespace, None, res)
    IN  IF FaultPoint("list", plural, None) \in F
        THEN [acc EXCEPT !.calls = Append(@, list(ftype)), !.exc = ftype]
        ELSE DeleteLoop(ListItems(acc.store, plural, namespace), 1,
                        [acc EXCEPT !.calls = Append(@, list("ok"))],
                        kind, name_prefix, F, ftype)

\* the try block of one kind, lines 100-116
ListAndDelete(acc, kind, namespace, ingress_name, F, ftype) ==
    LET plural == PLURAL_MAP[kind]
        name_prefix == namespace \o Dash \o ingress_name \o Dash
        list(res) == Call("list", plural, namespace, None, res)
    IN  IF FaultPoint("list", plural, None) \in F
        THEN [acc EXCEPT !.calls = Append(@, list(ftype)), !.exc = ftype]
        ELSE Only({DeleteLoop(items, 1, [acc EXCEPT !.calls = Append(@, list("ok"))],
                              kind, name_prefix, F, ftype) :
                       items \in {ListItems(acc.store, plural, namespace)}})

\* one pass of the for loop over PLURAL_MAP.items(), lines 98-118
KindPass(acc, kind, namespace, ingress_name, F, ftype) ==
    LET r == ListAndDelete(acc, kind, namespace, ingress_name, F, ftype)
    IN  IF r.exc # NoExc /\ Catches(RemoveExceptClause, r.exc)
        THEN [r EXCEPT !.logs = Append(@, Log("error", "Error deleting", <<kind>>)),
                       !.exc = NoExc]
        ELSE r

RECURSIVE KindLoop(_, _, _, _, _, _)
KindLoop(acc, k, namespace, ingress_name, F, ftype) ==
    IF k > Len(Kinds) \/ acc.exc # NoExc
    THEN acc
    ELSE Only({KindLoop(next, k + 1, namespace, ingress_name, F, ftype) :
                   next \in {KindPass(acc, Kinds[k], namespace, ingress_name, F, ftype)}})

\* remove external-dns annotation, lines 120-128
ClearTarget(acc, namespace, ingress_name, F, ftype) ==
    LET patch(res) == Call("patch_ingress", "ingresses", namespace, ingress_name, res)
    IN  IF FaultPoint("patch_ingress", "ingresses", ingress_name) \in F
        THEN IF Catches(ClearExceptClause, ftype)
             THEN [acc EXCEPT !.calls = Append(@, patch(ftype)),
                              !.logs = Append(@, Log("error", "Failed to remove annotation",
                                                     ingress_name))]
             ELSE [acc EXCEPT !.calls = Append(@, patch(ftype)), !.exc = ftype]
        ELSE [acc EXCEPT !.target = None,
                         !.calls = Append(@, patch("ok")),
                         !.logs = Append(@, Log("info", "Removed target", ingress_name))]

remove_crds_and_patch(acc, namespace, ingress_name, F, ftype) ==
    LET r == KindLoop(acc, 1, namespace, ingress_name, F, ftype)
    IN  IF r.exc # NoExc
        THEN r
        ELSE ClearTarget(r, namespace, ingress_name, F, ftype)

-----------------------------------------------------------------------------
(* reconcile_ingress, lines 130-158 *)

\* annotations.get("cloudfront.aws.k8s.io/enabled", "false")
EnabledValue(enabled) ==
    IF enabled = None THEN <<"f", "a", "l", "s", "e">> ELSE enabled

\* the comparison of line 139 without .lower(); the desired-state property
\* tells it from cf_enabled
ExactlyTrue(enabled) == EnabledValue(enabled) = <<"t", "r", "u", "e">>

\* cf_enabled, line 139
cf_enabled(enabled) == Lower(EnabledValue(enabled)) = <<"t", "r", "u", "e">>

\* except Exception, line 155
ReconcileExceptClause == "Exception"

\* the try block of the enabled branch, lines 143-154: lb is
\* status.load_balancer.ingress as read_namespaced_ingress returns it
\* (null: the field is None; items: its entries)
ResolveAndMaterialize(namespace, name, lb, file, F, ftype) ==
    LET read(res) == Call("read_ingress", "ingresses", namespace, name, res)
        raised(calls, exc) ==
            [calls |-> calls, logs |-> <<>>, exc |-> exc, alb_dns |-> None, docs |-> <<>>]
    IN  IF FaultPoint("read_ingress", "ingresses", name) \in F
        THEN raised(<<read(ftype)>>, ftype)
        ELSE IF lb.null
        THEN raised(<<read("ok")>>, "TypeError")
        ELSE IF lb.items = <<>>
        THEN raised(<<read("ok")>>, "IndexError")
        ELSE
        LET alb_dns == lb.items[1].hostname
            m == load_and_patch_template(file, FaultPoint("open", "template", None) \in F,
                                         namespace, name, alb_dns)
        IN  [calls |-> <<read("ok")>>,
             logs |-> <<Log("info", "Retrieved LoadBalancer hostname", alb_dns)>>,
             exc |-> m.exc,
             alb_dns |-> alb_dns,
             docs |-> m.docs]

\* if cf_enabled: ..., lines 141-156
EnabledBranch(st, tgt, namespace, name, lb, file, F, ftype, head) ==
    LET r == ResolveAndMaterialize(namespace, name, lb, file, F, ftype)
        caught == r.exc # NoExc /\ Catches(ReconcileExceptClause, r.exc)
    IN  [store |-> st,
         target |-> tgt,
         calls |-> r.calls,
         logs |-> IF caught
                  THEN head \o r.logs \o
                       <<Log("error", "Failed to retrieve LoadBalancer hostname", name)>>
                  ELSE head \o r.logs,
         exc |-> IF caught THEN NoExc ELSE r.exc,
         cf_enabled |-> TRUE,
         alb_dns |-> r.alb_dns,
         docs |-> r.docs]

\* else: remove_crds_and_patch(namespace, name, logger), lines 157-158
DisabledBranch(st, tgt, namespace, name, F, ftype, head) ==
    LET r == remove_crds_and_patch(
                 [store |-> st, target |-> tgt, calls |-> <<>>,
                  logs |-> head, exc |-> NoExc],
                 namespace, name, F, ftype)
    IN  [store |-> r.store,
         target |-> r.target,
         calls |-> r.calls,
         logs |-> r.logs,
         exc |-> r.exc,
         cf_enabled |-> FALSE,
         alb_dns |-> None,
         docs |-> <<>>]

\* a handler that tears down whatever the annotation says; the property that
\* the two branches are disjoint tells it from reconcile_ingress
TeardownAlways(st, enabled, tgt, namespace, name, lb, file, F, ftype) ==
    LET head == <<Log("info", "Processing Ingress", name), Log("info", "Annotations", name)>>
    IN  [DisabledBranch(st, tgt, namespace, name, F, ftype, head)
            EXCEPT !.cf_enabled = cf_enabled(enabled)]

\* enabled is the value of the cloudfront.aws.k8s.io/enabled annotation in
\* meta (None when absent), tgt that of the external-dns target annotation.
reconcile_ingress(st, enabled, tgt, namespace, name, lb, file, F, ftype) ==
    LET head == <<Log("info", "Processing Ingress", name), Log("info", "Annotations", name)>>
    IN  IF cf_enabled(enabled)
        THEN EnabledBranch(st, tgt, namespace, name, lb, file, F, ftype, head)
        ELSE DisabledBranch(st, tgt, namespace, name, F, ftype, head)

-----------------------------------------------------------------------------
(* The cluster the controller runs against *)

N == <<"n">>
M == <<"m">>

Endpoints == {[namespace |-> N, name |-> <<"a">>],
              [namespace |-> N, name |-> <<"a", "-", "b">>]}

True == <<"t", "r", "u", "e">>

EnabledValues == {None, True}

Targets == {None, <<"c", "f">>}

Hosts == {<<"h", "1">>, <<"h", "2">>}

NoLB == [null |-> TRUE, items |-> <<>>]

LBStatuses ==
    {NoLB, [null |-> FALSE, items |-> <<>>]}
    \cup {[null |-> FALSE, items |-> <<[hostname |-> h]>>] : h \in Hosts \cup {None}}

FaultTypes == {"ApiException", "ConnectionError"}

StaleBody == [comment |-> <<"old">>, originId |-> <<"old">>,
              domainName |-> <<"old">>, targetOriginId |-> <<"old">>]

Obj(plural, namespace, name, body) ==
    [plural |-> plural, namespace |-> namespace, name |-> name, body |-> body]

\* the objects the store holds when the controller starts, unless it is empty
Objects ==
    {Obj("distributions", N, <<"n", "-", "a", "-", "d">>, StaleBody),
     Obj("distributions", N, <<"n", "-", "a", "-", "b", "-", "d">>, StaleBody),
     Obj("distributions", N, <<"n", "-", "o", "-", "d">>, StaleBody),
     Obj("distributions", M, <<"n", "-", "a", "-", "d">>, StaleBody),
     Obj("functions", N, <<"n", "-", "a", "-", "c", "f", "-", "o", "b", "j", "e", "c", "t">>, RawBody)}

Doc(kind, name, missing) ==
    [kind |-> kind, name |-> name, missing |-> missing, body |-> RawBody]

GoodTemplate == <<Doc("Distribution", <<"d">>, "none"), Doc("Unknown", <<"u">>, "none"),
                  Doc("Function", None, "none")>>

BadTemplate == <<Doc("Function", <<"f">>, "none"),
                 Doc("Distribution", <<"d">>, "defaultCacheBehavior")>>

Templates == {GoodTemplate, BadTemplate}

\* the calls a tick on endpoint e makes in the current state, each of which
\* may fail: enabled_branch tells the branch it takes, lb what the read of
\* the Ingress returns
FaultPoints(e, enabled_branch, lb) ==
    IF enabled_branch
    THEN {FaultPoint("read_ingress", "ingresses", e.name)}
         \cup (IF lb.null \/ lb.items = <<>> THEN {} ELSE {FaultPoint("open", "template", None)})
    ELSE {FaultPoint("patch_ingress", "ingresses", e.name)}
         \cup {FaultPoint("list", PLURAL_MAP[k], None) : k \in DOMAIN PLURAL_MAP}
         \cup {FaultPoint("delete", o.plural, o.name) :
                 o \in {x \in store : /\ x.namespace = e.namespace
                                       /\ StartsWith(x.name, e.namespace \o Dash \o e.name \o Dash)}}

RECURSIVE SubsetsUpTo(_, _)
SubsetsUpTo(S, k) ==
    IF k = 0 THEN {{}}
    ELSE LET P == SubsetsUpTo(S, k - 1)
         IN  P \cup {A \cup {x} : A \in P, x \in S}

-----------------------------------------------------------------------------
(* State machine *)

Passes == {1, 2}

NoDoc == [kind |-> "none"]

\* a caller that is not inside create_or_update_crd
Idle == [pc |-> "idle", doc |-> NoDoc, calls |-> <<>>, logs |-> <<>>, applied |-> 0, faults |-> 0]

NotApplying == [p \in Passes |-> Idle]

Summary(t) == [cf_enabled |-> t.cf_enabled, alb_dns |-> t.alb_dns, docs |-> t.docs]

\* prior after a tick t: the run of fault-free ticks of t's Ingress that
\* precede it, at most MaxPrior of them
Shift(p, l, t) ==
    IF l = <<>> \/ ~t.clean THEN <<>>
    ELSE IF ~l[1].clean \/ l[1].e # t.e THEN <<>>
    ELSE LET q == Append(p, Summary(l[1]))
         IN  IF Len(q) > MaxPrior THEN Tail(q) ELSE q

Init ==
    /\ store \in {Objects, {}}
    /\ target \in [Endpoints -> Targets]
    /\ template \in Templates
    /\ last = <<>>
    /\ prior = <<>>
    /\ applying = NotApplying

\* One timer tick of reconcile_ingress for endpoint e: the handler is given
\* the annotation value in meta and reads the load-balancer status lb.
TickOf(e, values, lbs, maxFaults) ==
    \E enabled \in values :
    \E lb \in IF cf_enabled(enabled) THEN lbs ELSE {NoLB} :
    \E F \in SubsetsUpTo(FaultPoints(e, cf_enabled(enabled), lb), maxFaults) :
    \E ftype \in IF F = {} THEN {"ApiException"} ELSE FaultTypes :
        /\ FaultPoint("read_ingress", "ingresses", e.name) \in F => lb = NoLB
        /\ \E r \in {reconcile_ingress(store, enabled, target[e], e.namespace, e.name,
                                       lb, template, F, ftype)} :
           \E t \in {[e |-> e,
                      enabled |-> enabled,
                      cf_enabled |-> r.cf_enabled,
                      lb |-> lb,
                      alb_dns |-> r.alb_dns,
                      before |-> store,
                      target_before |-> target[e],
                      faults |-> F,
                      calls |-> r.calls,
                      logs |-> r.logs,
                      exc |-> r.exc,
                      docs |-> r.docs,
                      clean |-> /\ r.exc = NoExc
                                /\ \A i \in 1..Len(r.calls) : r.calls[i].res = "ok"
                                /\ \A i \in 1..Len(r.logs) : r.logs[i].level = "info"
                                /\ r.cf_enabled => r.alb_dns # None]} :
               /\ store' = r.store
               /\ target' = [target EXCEPT ![e] = r.target]
               /\ last' = <<t>>
               /\ prior' = Shift(prior, last, t)
               /\ UNCHANGED <<template, applying>>

Tick(e) == TickOf(e, EnabledValues, LBStatuses, MaxFaults)

Next == \E e \in Endpoints : Tick(e)

Spec == Init /\ [][Next]_vars

-----------------------------------------------------------------------------
(* The enablement annotation: ticks over many annotation values, no faults *)

FlagValues ==
    {None, True, <<"T", "R", "U", "E">>, <<"T", "r", "u", "e">>, <<"t", "R", "u", "E">>,
     <<"f", "a", "l", "s", "e">>, <<"F", "a", "l", "s", "e">>, <<"y", "e", "s">>,
     <<"1">>, <<>>, <<"t", "r", "u", "e", " ">>, <<"t", "r", "u">>, <<"o", "n">>}

InitFlag ==
    /\ store \in {Objects, {}}
    /\ target \in [Endpoints -> Targets]
    /\ template = GoodTemplate
    /\ last = <<>>
    /\ prior = <<>>
    /\ applying = NotApplying

Resolved == {[null |-> FALSE, items |-> <<[hostname |-> h]>>] : h \in Hosts}

TickFlag(e) == TickOf(e, FlagValues, {NoLB} \cup Resolved, 0)

NextFlag == \E e \in Endpoints : TickFlag(e)

SpecFlag == InitFlag /\ [][NextFlag]_vars

-----------------------------------------------------------------------------
(* Materialization: ticks of enabled Ingresses over every template of at   *)
(* most MaxDocs documents                                                  *)

DocChoices ==
    {Doc("Distribution", <<"d">>, "none"),
     Doc("Distribution", None, "none"),
     Doc("Distribution", <<"d">>, "distributionConfig"),
     Doc("Distribution", <<"d">>, "items"),
     Doc("Distribution", <<"d">>, "defaultCacheBehavior"),
     Doc("Function", <<"f">>, "none"),
     Doc("KeyGroup", None, "none"),
     Doc("Unknown", <<"u">>, "none"),
     Doc("absent", None, "none")}

RECURSIVE SeqsUpTo(_, _)
SeqsUpTo(S, n) ==
    IF n = 0 THEN {<<>>}
    ELSE LET P == SeqsUpTo(S, n - 1)
         IN  P \cup {Append(q, x) : q \in {q \in P : Len(q) = n - 1}, x \in S}

InitMat ==
    /\ store = {}
    /\ target = [e \in Endpoints |-> None]
    /\ template \in SeqsUpTo(DocChoices, MaxDocs)
    /\ last = <<>>
    /\ prior = <<>>
    /\ applying = NotApplying

TickMat(e) == TickOf(e, {True}, LBStatuses, MaxFaults)

NextMat == \E e \in Endpoints : TickMat(e)

SpecMat == InitMat /\ [][NextMat]_vars

-----------------------------------------------------------------------------
(* create_or_update_crd called by two callers side by side, each on        *)
(* documents materialized for Ingress n/a                                  *)

IngressA == <<"a">>

\* what load_and_patch_template yields for n/a: the Distribution patched for
\* either hostname, the Function, and a document of a kind outside PLURAL_MAP
ApplyDocs ==
    {PatchDoc(Doc("Distribution", <<"d">>, "none"), N, IngressA, h, N \o Dash \o IngressA \o Dash \o OriginSuffix) :
        h \in Hosts}
    \cup {PatchDoc(Doc("Function", None, "none"), N, IngressA, <<"h", "1">>, N \o Dash \o IngressA \o Dash \o OriginSuffix),
          PatchDoc(Doc("Unknown", <<"u">>, "none"), N, IngressA, <<"h", "1">>, N \o Dash \o IngressA \o Dash \o OriginSuffix)}

InitApply ==
    /\ store \in {Objects, {}}
    /\ target = [e \in Endpoints |-> None]
    /\ template = GoodTemplate
    /\ last = <<>>
    /\ prior = <<>>
    /\ applying = NotApplying

\* the faults a call may raise, while the caller has faults left
StepFaults(p) == IF applying[p].faults < MaxFaults THEN {NoExc} \cup FaultTypes ELSE {NoExc}

\* lines 55-61: a caller enters create_or_update_crd(doc, logger)
Invoke(p) ==
    /\ applying[p].pc = "idle"
    /\ applying[p].applied < MaxApplies
    /\ \E doc \in ApplyDocs :
           applying' = [applying EXCEPT ![p] =
                           [@ EXCEPT !.pc = IF InPluralMap(doc.kind) THEN "get" ELSE "idle",
                                     !.doc = doc,
                                     !.calls = <<>>,
                                     !.logs = <<>>,
                                     !.applied = @ + 1]]
    /\ UNCHANGED <<store, target, template, last, prior>>

Step(p, r, fault) ==
    /\ store' = r.store
    /\ applying' = [applying EXCEPT ![p] =
                       [@ EXCEPT !.pc = r.pc,
                                 !.calls = Append(@, r.call),
                                 !.logs = @ \o r.logs,
                                 !.faults = IF fault = NoExc THEN @ ELSE @ + 1]]
    /\ UNCHANGED <<target, template, last, prior>>

ApplyGet(p) ==
    /\ applying[p].pc = "get"
    /\ \E fault \in StepFaults(p) :
       \E r \in {GetStep(store, applying[p].doc, fault)} : Step(p, r, fault)

ApplyCreate(p) ==
    /\ applying[p].pc = "create"
    /\ \E fault \in StepFaults(p) :
       \E r \in {CreateStep(store, applying[p].doc, fault)} : Step(p, r, fault)

NextApply == \E p \in Passes : Invoke(p) \/ ApplyGet(p) \/ ApplyCreate(p)

SpecApply == InitApply /\ [][NextApply]_vars

-----------------------------------------------------------------------------
(* Ticks once the faults have stopped: the annotations stay as they are,   *)
(* Ingress a enabled and Ingress a-b disabled, the hostname is resolved,   *)
(* and the store is in whatever state the faulty ticks left it.  The timer *)
(* of line 130 fires for each Ingress again and again.                     *)

HealAnnotation ==
    [e \in Endpoints |-> IF e.name = IngressA THEN True ELSE None]

InitHeal ==
    /\ store \in SUBSET Objects
    /\ target = [e \in Endpoints |-> <<"c", "f">>]
    /\ template = GoodTemplate
    /\ last = <<>>
    /\ prior = <<>>
    /\ applying = NotApplying

TickHeal(e) == TickOf(e, {HealAnnotation[e]}, Resolved, 0)

NextHeal == \E e \in Endpoints : TickHeal(e)

SpecHeal ==
    /\ InitHeal
    /\ [][NextHeal]_vars
    /\ \A e \in Endpoints : WF_vars(TickHeal(e))

-----------------------------------------------------------------------------
(* Vocabulary of the properties *)

Ticked == last # <<>>

L == last[1]

Plurals == {PLURAL_MAP[k] : k \in DOMAIN PLURAL_MAP}

NamePrefix(e) == e.namespace \o Dash \o e.name \o Dash

\* the objects of st a teardown of endpoint e is to find
Matched(st, e) ==
    {o \in st : /\ o.plural \in Plurals
                /\ o.namespace = e.namespace
                /\ StartsWith(o.name, NamePrefix(e))}

StoreOps == {"get", "create", "list", "delete"}

CallsWith(t, ops) == {i \in 1..Len(t.calls) : t.calls[i].op \in ops}

CallsOn(t, op, plural, name) ==
    {i \in 1..Len(t.calls) : /\ t.calls[i].op = op
                             /\ t.calls[i].plural = plural
                             /\ t.calls[i].name = name}

ErrorLogged(t) == \E i \in 1..Len(t.logs) : t.logs[i].level = "error"

UniqueKeys(st) ==
    \A o, q \in st :
        (o.plural = q.plural /\ o.namespace = q.namespace /\ o.name = q.name) => o = q

\* the load-balancer status carries no hostname
Unassigned(lb) == lb.null \/ lb.items = <<>> \/ lb.items[1].hostname = None

\* the previous tick, when it was a fault-free tick of the same Ingress
Previous == prior[Len(prior)]

-----------------------------------------------------------------------------
(* C1: after an Enabled tick with a resolved hostname and no failing call,  *)
(* every resource the materialization produced exists in the store.        *)
C1_EnabledTickCreatesAll ==
    (Ticked /\ L.cf_enabled /\ L.alb_dns \in Hosts /\ L.faults = {} /\ L.exc = NoExc) =>
        \A i \in 1..Len(L.docs) :
            Exists(store, PLURAL_MAP[L.docs[i].kind], L.docs[i].namespace, L.docs[i].name)

(* C2: a second Enabled tick in succession, same Ingress and hostname,     *)
(* leaves the store as the first left it, finds every materialized         *)
(* resource present in its existence check, issues no create, and no key   *)
(* is held twice.                                                          *)
TwoEnabledTicks ==
    /\ Ticked /\ L.cf_enabled /\ L.clean
    /\ prior # <<>> /\ Previous.cf_enabled /\ Previous.alb_dns = L.alb_dns

C2_EnabledTwiceIsIdempotent ==
    TwoEnabledTicks =>
        /\ store = L.before
        /\ CallsWith(L, {"create"}) = {}
        /\ \A i \in 1..Len(L.docs) :
               \E c \in CallsOn(L, "get", PLURAL_MAP[L.docs[i].kind], L.docs[i].name) :
                   L.calls[c].res = "ok"
        /\ UniqueKeys(store)

(* C3: a fault-free Disabled tick deletes exactly the objects of the       *)
(* registry kinds in the Ingress's namespace whose name starts with        *)
(* "{namespace}-{name}-", each once; every other object stays.             *)
C3_TeardownDeletesExactlyThePrefixed ==
    (Ticked /\ ~L.cf_enabled /\ L.faults = {}) =>
        /\ store = L.before \ Matched(L.before, L.e)
        /\ \A o \in Matched(L.before, L.e) :
               Cardinality(CallsOn(L, "delete", o.plural, o.name)) = 1
        /\ Cardinality(CallsWith(L, {"delete"})) = Cardinality(Matched(L.before, L.e))

C3_Witness ==
    /\ Ticked /\ ~L.cf_enabled /\ L.faults = {}
    /\ Cardinality(Matched(L.before, L.e)) >= 3
    /\ Cardinality({o.plural : o \in Matched(L.before, L.e)}) >= 2
    /\ \E o \in store : o.namespace = L.e.namespace /\ ~StartsWith(o.name, NamePrefix(L.e))
    /\ \E o \in store : o.namespace # L.e.namespace /\ StartsWith(o.name, NamePrefix(L.e))

(* C4: after the ticks Enabled, Disabled, Enabled of one Ingress with the  *)
(* same hostname, the objects of that Ingress in the store are those a     *)
(* single Enabled tick leaves on an empty store (kind, name and content).  *)
RoundTrip ==
    /\ Ticked /\ L.cf_enabled /\ L.clean
    /\ Len(prior) >= 2
    /\ ~Previous.cf_enabled
    /\ prior[Len(prior) - 1].cf_enabled
    /\ prior[Len(prior) - 1].alb_dns = L.alb_dns

SingleEnabledOnEmpty(t) ==
    reconcile_ingress({}, t.enabled, None, t.e.namespace, t.e.name, t.lb, template,
                      {}, "ApiException").store

C4_RoundTripConverges ==
    RoundTrip => Matched(store, L.e) = Matched(SingleEnabledOnEmpty(L), L.e)

C4_Witness == RoundTrip /\ store # {}

(* C5: in an Enabled tick an existence check is attempted for every        *)
(* materialized resource, whatever happened to the others.                 *)
C5_EveryResourceIsAttempted ==
    (Ticked /\ L.cf_enabled /\ L.exc = NoExc) =>
        \A i \in 1..Len(L.docs) :
            CallsOn(L, "get", PLURAL_MAP[L.docs[i].kind], L.docs[i].name) # {}

(* C6: an Enabled tick whose load-balancer status carries no hostname      *)
(* makes no store call and no annotation write, leaves store and           *)
(* annotations as they were, and logs the skip.                            *)
C6_DeferredEnablement ==
    (Ticked /\ L.cf_enabled /\ L.faults = {} /\ Unassigned(L.lb)) =>
        /\ CallsWith(L, StoreOps) = {}
        /\ CallsWith(L, {"patch_ingress"}) = {}
        /\ store = L.before
        /\ target[L.e] = L.target_before
        /\ ErrorLogged(L)

(* C7: the branch a tick takes is Enabled exactly when the value of the     *)
(* enablement annotation is "true" in any mix of cases, and Disabled for   *)
(* every other value and for an absent annotation, whatever the ticks      *)
(* before it saw or did.                                                   *)
IsTrueIgnoringCase(v) ==
    /\ Len(v) = 4
    /\ v[1] \in {"t", "T"}
    /\ v[2] \in {"r", "R"}
    /\ v[3] \in {"u", "U"}
    /\ v[4] \in {"e", "E"}

C7_DesiredStateFromAnnotationAlone ==
    Ticked =>
        /\ L.cf_enabled <=> IsTrueIgnoringCase(L.enabled)
        /\ IsTrueIgnoringCase(L.enabled) =>
               /\ CallsWith(L, {"read_ingress"}) # {}
               /\ CallsWith(L, {"list", "delete", "patch_ingress"}) = {}
        /\ ~IsTrueIgnoringCase(L.enabled) =>
               /\ CallsWith(L, {"read_ingress"}) = {}
               /\ Cardinality(CallsWith(L, {"list"})) = Len(Kinds)

C7_Witness ==
    /\ Ticked /\ L.enabled = <<"t", "R", "u", "E">> /\ L.cf_enabled
    /\ prior # <<>> /\ ~Previous.cf_enabled

(* C8: a materialization that succeeds returns the template documents      *)
(* whose kind is in the registry, in template order; a document of another *)
(* kind is left out, raises no error and causes no store call.             *)
Recognized(d) == d.kind \in {Kinds[i] : i \in 1..Len(Kinds)}

Rec == SelectSeq(template, Recognized)

\* the tick reaches load_and_patch_template and every registry document of
\* the template has the fields the patch writes
Materializes ==
    /\ Ticked /\ L.cf_enabled /\ L.faults = {}
    /\ ~L.lb.null /\ L.lb.items # <<>>
    /\ \A i \in 1..Len(Rec) : Rec[i].kind = "Distribution" => Rec[i].missing = "none"

ExpectedName(e, d) ==
    e.namespace \o <<"-">> \o e.name \o <<"-">> \o
        (IF d.name = None THEN <<"c", "f", "-", "o", "b", "j", "e", "c", "t">> ELSE d.name)

C8_OnlyRegistryKindsInOrder ==
    Materializes =>
        /\ L.exc = NoExc /\ ~ErrorLogged(L)
        /\ Len(L.docs) = Len(Rec)
        /\ \A i \in 1..Len(Rec) :
               /\ L.docs[i].kind = Rec[i].kind
               /\ L.docs[i].name = ExpectedName(L.e, Rec[i])
        /\ CallsWith(L, StoreOps) = {}
        /\ \A i \in 1..Len(template) :
               ~Recognized(template[i]) =>
                   create_or_update_crd(store,
                       [kind |-> template[i].kind, namespace |-> L.e.namespace,
                        name |-> ExpectedName(L.e, template[i]), body |-> template[i].body],
                       {}, "ApiException").calls = <<>>

C8_Witness ==
    /\ Materializes
    /\ Len(template) = 2 /\ ~Recognized(template[1]) /\ Recognized(template[2])
    /\ Len(L.docs) = 1

(* C9: every materialized resource is in the Ingress's namespace and named *)
(* "{namespace}-{name}-{base}", base being "cf-object" when the template   *)
(* gives no name; in a Distribution the origin id and the target origin id *)
(* are both "{namespace}-{name}-origin" and the origin's domain name is    *)
(* the hostname; materializing again with the same inputs gives the same   *)
(* documents.                                                              *)
C9_DeterministicNaming ==
    Materializes =>
        /\ Len(L.docs) = Len(Rec)
        /\ \A i \in 1..Len(Rec) :
               /\ L.docs[i].namespace = L.e.namespace
               /\ L.docs[i].name = ExpectedName(L.e, Rec[i])
               /\ Rec[i].kind = "Distribution" =>
                      /\ L.docs[i].body.originId =
                             L.e.namespace \o <<"-">> \o L.e.name \o <<"-", "o", "r", "i", "g", "i", "n">>
                      /\ L.docs[i].body.targetOriginId = L.docs[i].body.originId
                      /\ L.docs[i].body.domainName = L.lb.items[1].hostname
        /\ (prior # <<>> /\ Previous.cf_enabled /\ Previous.alb_dns = L.alb_dns) =>
               Previous.docs = L.docs

C9_Witness ==
    /\ Materializes
    /\ L.e.name = <<"a", "-", "b">>
    /\ L.lb.items[1].hostname \in Hosts
    /\ \E i \in 1..Len(Rec) : Rec[i].kind = "Distribution"
    /\ \E i \in 1..Len(Rec) : Rec[i].name = None
    /\ prior # <<>> /\ Previous.alb_dns = L.alb_dns

(* C10: no exception leaves a tick, and a tick in which a call failed, the *)
(* hostname was unresolved or the template was unreadable or malformed     *)
(* logs the fault.                                                         *)
Faulted(t) ==
    \/ t.faults # {}
    \/ t.cf_enabled /\ Unassigned(t.lb)
    \/ t.cf_enabled /\ \E i \in 1..Len(Rec) :
                           Rec[i].kind = "Distribution" /\ Rec[i].missing # "none"

C10_NoExceptionEscapes ==
    Ticked =>
        /\ L.exc = NoExc
        /\ Faulted(L) => ErrorLogged(L)

(* C11: when two callers apply the same (kind, namespace, name) side by    *)
(* side and both get 404 before either creates, the store holds one object *)
(* of that name; the caller whose create is answered 409 logs it, returns  *)
(* normally with the object present and issues no second create.           *)
Conflicted(p) ==
    \E i \in 1..Len(applying[p].calls) :
        applying[p].calls[i].op = "create" /\ applying[p].calls[i].res = "409"

C11_ConcurrentCreateKeepsOne ==
    /\ UniqueKeys(store)
    /\ \A p \in Passes :
           Conflicted(p) =>
               /\ applying[p].pc = "idle"
               /\ \E i \in 1..Len(applying[p].logs) :
                      /\ applying[p].logs[i].level = "error"
                      /\ applying[p].logs[i].name = applying[p].doc.name
               /\ Cardinality({i \in 1..Len(applying[p].calls) :
                                  applying[p].calls[i].op = "create"}) = 1
               /\ Exists(store, PLURAL_MAP[applying[p].doc.kind],
                          applying[p].doc.namespace, applying[p].doc.name)

C11_Witness ==
    /\ \A p \in Passes : applying[p].applied > 0
    /\ Conflicted(2)
    /\ applying[2].calls[1].res = "404"
    /\ applying[1].calls = <<Call("get", "distributions", N, applying[1].doc.name, "404"),
                             Call("create", "distributions", N, applying[1].doc.name, "ok")>>
    /\ applying[1].doc.name = applying[2].doc.name
    /\ applying[1].doc.body # applying[2].doc.body
    /\ applying[2].applied < MaxApplies

(* C12: when a Distribution document of the template lacks a nested field *)
(* the patch writes, load_and_patch_template raises to its caller and      *)
(* returns no document, patched or not; the tick logs the error and        *)
(* creates nothing.                                                        *)
Malformed ==
    /\ Ticked /\ L.cf_enabled /\ L.faults = {}
    /\ ~L.lb.null /\ L.lb.items # <<>>
    /\ \E i \in 1..Len(template) :
           /\ template[i].kind = "Distribution"
           /\ template[i].missing \in {"distributionConfig", "items", "defaultCacheBehavior"}

C12_MalformedTemplateRaises ==
    Malformed =>
        /\ load_and_patch_template(template, FALSE, L.e.namespace, L.e.name,
                                   L.lb.items[1].hostname).exc \in {"KeyError", "IndexError"}
        /\ load_and_patch_template(template, FALSE, L.e.namespace, L.e.name,
                                   L.lb.items[1].hostname).docs = <<>>
        /\ L.docs = <<>>
        /\ ErrorLogged(L)
        /\ CallsWith(L, {"create"}) = {}
        /\ store = L.before

C12_Witness ==
    /\ Malformed
    /\ Len(template) = 2
    /\ template[1].kind = "Function"
    /\ template[2].missing = "defaultCacheBehavior"

(* C13: in a Disabled tick in which the delete of a prefix-matched object  *)
(* fails (NotFound included), a delete is still attempted for every other  *)
(* prefix-matched object, of the same kind and of the other kinds.         *)
DeleteFailed ==
    /\ Ticked /\ ~L.cf_enabled
    /\ L.faults # {}
    /\ \A f \in L.faults : f.op = "delete"

C13_DeleteFailureIsIsolated ==
    DeleteFailed =>
        \A o \in Matched(L.before, L.e) : CallsOn(L, "delete", o.plural, o.name) # {}

(* C14: within one call of create_or_update_crd a create is issued only    *)
(* right after the existence check of the same key answered 404; when the  *)
(* check answers present or fails otherwise, the call issues no create and *)
(* does not change the store.                                              *)
CheckedBeforeCreate(p) ==
    LET c == applying[p].calls
    IN  /\ \A i \in 1..Len(c) :
               c[i].op = "create" =>
                   /\ i > 1
                   /\ c[i - 1] = Call("get", c[i].plural, c[i].namespace, c[i].name, "404")
        /\ \A i \in 1..Len(c) :
               (c[i].op = "get" /\ c[i].res # "404") =>
                   /\ i = Len(c)
                   /\ applying[p].pc # "create"

\* a caller changes the store only by a create that answers ok, adding the
\* object of its document
StoreChangedOnlyByCreate(p) ==
    (applying'[p] # applying[p] /\ store' # store) =>
        /\ applying[p].pc = "create"
        /\ applying'[p].calls[Len(applying'[p].calls)].op = "create"
        /\ applying'[p].calls[Len(applying'[p].calls)].res = "ok"
        /\ store' = store \cup {StoreObject(applying[p].doc)}

C14_CheckThenCreate ==
    /\ [](\A p \in Passes : CheckedBeforeCreate(p))
    /\ [][\A p \in Passes : StoreChangedOnlyByCreate(p)]_vars

C14_Witness ==
    /\ \A p \in Passes : applying[p].applied > 0
    /\ applying[1].calls = <<Call("get", "functions", N, applying[1].doc.name, "ApiException")>>
    /\ ~Exists(store, "functions", N, applying[1].doc.name)
    /\ applying[1].pc = "idle"
    /\ applying[2].calls = <<Call("get", "distributions", N, applying[2].doc.name, "ok")>>
    /\ applying[2].pc = "idle"

(* C15: every document an Enabled tick materializes for an Ingress is in   *)
(* the Ingress's namespace, of a registry kind and named with the prefix   *)
(* "{namespace}-{name}-"; so what create_or_update_crd creates from them a *)
(* fault-free teardown of the same Ingress removes entirely.               *)
RECURSIVE AppliedInOrder(_, _, _)
AppliedInOrder(st, docs, i) ==
    IF i > Len(docs) THEN st
    ELSE AppliedInOrder(create_or_update_crd(st, docs[i], {}, "ApiException").store, docs, i + 1)

TornDown(st, e) ==
    remove_crds_and_patch([store |-> st, target |-> None, calls |-> <<>>,
                           logs |-> <<>>, exc |-> NoExc],
                          e.namespace, e.name, {}, "ApiException").store

C15_TeardownFindsWhatWasMaterialized ==
    Materializes =>
        /\ \A i \in 1..Len(L.docs) :
               /\ L.docs[i].namespace = L.e.namespace
               /\ L.docs[i].kind \in {Kinds[k] : k \in 1..Len(Kinds)}
               /\ StartsWith(L.docs[i].name, L.e.namespace \o <<"-">> \o L.e.name \o <<"-">>)
        /\ \A o \in AppliedInOrder(store, L.docs, 1) \ store :
               o \notin TornDown(AppliedInOrder(store, L.docs, 1), L.e)

C15_Witness ==
    /\ Materializes
    /\ Len(L.docs) = 2
    /\ L.docs[1].kind # L.docs[2].kind
    /\ Cardinality(AppliedInOrder(store, L.docs, 1) \ store) = 2

(* C16: a Disabled tick of an Ingress deletes no object that was           *)
(* materialized for another Ingress of the same namespace, also when one   *)
(* name extends the other with a hyphen.                                   *)
MaterializedFor(o, e) ==
    /\ o.namespace = e.namespace
    /\ \A i \in 1..Len(Rec) : Rec[i].kind = "Distribution" => Rec[i].missing = "none"
    /\ \E i \in 1..Len(template) :
           /\ Recognized(template[i])
           /\ o.plural = PLURAL_MAP[template[i].kind]
           /\ o.name = ExpectedName(e, template[i])

C16_TeardownConfinedToItsIngress ==
    (Ticked /\ ~L.cf_enabled) =>
        \A o \in L.before \ store :
            \A e \in Endpoints \ {L.e} :
                ~(MaterializedFor(o, e) /\ ~MaterializedFor(o, L.e))

(* C17: every Disabled tick attempts the clear of the target annotation    *)
(* exactly once, as its last call, after the list of every registry kind,  *)
(* whether or not a list or delete failed; a failing clear is logged and   *)
(* the deletions done before it stay done.                                 *)
DeletedOk(t) ==
    {o \in t.before :
        \E i \in CallsOn(t, "delete", o.plural, o.name) :
            t.calls[i].namespace = o.namespace /\ t.calls[i].res = "ok"}

C17_AnnotationClearedLast ==
    (Ticked /\ ~L.cf_enabled) =>
        /\ Cardinality(CallsWith(L, {"patch_ingress"})) = 1
        /\ L.calls[Len(L.calls)].op = "patch_ingress"
        /\ {L.calls[i].plural : i \in CallsWith(L, {"list"})} = Plurals
        /\ L.exc = NoExc
        /\ store = L.before \ DeletedOk(L)
        /\ L.calls[Len(L.calls)].res # "ok" =>
               /\ ErrorLogged(L)
               /\ target[L.e] = L.target_before
        /\ L.calls[Len(L.calls)].res = "ok" => target[L.e] = None

C17_Witness ==
    /\ Ticked /\ ~L.cf_enabled
    /\ \E i \in CallsWith(L, {"list"}) : L.calls[i].res = "ConnectionError"
    /\ DeletedOk(L) # {}
    /\ L.target_before # None

(* C19: a tick that finds the Ingress enabled issues no list or delete and *)
(* leaves the target annotation alone; a tick that finds it disabled does  *)
(* not read the Ingress's hostname, materializes nothing and issues no     *)
(* existence check or create.                                              *)
HostnameLogged(t) ==
    \E i \in 1..Len(t.logs) : t.logs[i].msg = "Retrieved LoadBalancer hostname"

C19_BranchesAreDisjoint ==
    Ticked =>
        /\ L.cf_enabled =>
               /\ CallsWith(L, {"list", "delete", "patch_ingress"}) = {}
               /\ target[L.e] = L.target_before
               /\ store = L.before
        /\ ~L.cf_enabled =>
               /\ CallsWith(L, {"read_ingress", "get", "create"}) = {}
               /\ ~HostnameLogged(L)
               /\ L.alb_dns = None
               /\ L.docs = <<>>
               /\ store \subseteq L.before

C19_Witness ==
    /\ Ticked /\ ~L.cf_enabled
    /\ store # L.before
    /\ L.target_before # None
    /\ prior # <<>> /\ Previous.cf_enabled /\ Previous.docs # <<>>

(* C18: with the annotations fixed and the faults over, the store          *)
(* eventually matches the desired state for good: nothing with the prefix  *)
(* of a disabled Ingress is left in its namespace, and every resource      *)
(* materialized for an enabled Ingress with a resolved hostname exists.    *)
DisabledHealed(e) == Matched(store, e) = {}

EnabledHealed(e) ==
    \A i \in 1..Len(Rec) :
        Exists(store, PLURAL_MAP[Rec[i].kind], e.namespace, ExpectedName(e, Rec[i]))

Healed ==
    \A e \in Endpoints :
        IF IsTrueIgnoringCase(HealAnnotation[e]) THEN EnabledHealed(e) ELSE DisabledHealed(e)

C18_SelfHealing == <>[]Healed

====
